---- MODULE Spec2Model ----
(***************************************************************************)
(* Model of tower_cli/resources/workflow_job.py: the workflow-job          *)
(* resource's lookup_stdout (scorecard text), scorecard and launch.        *)
(*                                                                         *)
(* Python values are tagged records (PyNone, PyInt, ...); text is a        *)
(* sequence of one-character strings so that slicing, padding and          *)
(* upper-casing are computed character by character.                       *)
(***************************************************************************)
EXTENDS Integers, Sequences, FiniteSets, TLC

\* ------------------------------------------------------------------ bounds
\* number of unified jobs that exist on the remote service
MaxJobs == 3
\* line arguments range over -MaxNeg .. MaxJobs + MaxOver
MaxNeg == 2
MaxOver == 1

\* ------------------------------------------------------------ Python values
PyNone == [t |-> "none"]
PyInt(n) == [t |-> "int", v |-> n]
PyBool(b) == [t |-> "bool", v |-> b]
PyStr(s) == [t |-> "str", v |-> s]
PyTuple(s) == [t |-> "tuple", v |-> s]
PyDict(m) == [t |-> "dict", v |-> m]
\* elapsed seconds as the JSON decoder yields them: whole.milli
PyFloat(w, m) == [t |-> "float", whole |-> w, milli |-> m]

IsNone(x) == x.t = "none"

Min(a, b) == IF a < b THEN a ELSE b
Max(a, b) == IF a > b THEN a ELSE b

\* ---------------------------------------------------------------- text
LowerCase == << "a","b","c","d","e","f","g","h","i","j","k","l","m",
                "n","o","p","q","r","s","t","u","v","w","x","y","z" >>
UpperCase == << "A","B","C","D","E","F","G","H","I","J","K","L","M",
                "N","O","P","Q","R","S","T","U","V","W","X","Y","Z" >>
Digits == << "0","1","2","3","4","5","6","7","8","9" >>

\* str.upper() on one character
UpperChar(c) ==
    IF \E i \in 1..Len(LowerCase) : LowerCase[i] = c
    THEN UpperCase[CHOOSE i \in 1..Len(LowerCase) : LowerCase[i] = c]
    ELSE c

\* str.upper()
Upper(s) == [i \in 1..Len(s) |-> UpperChar(s[i])]

\* s[:n] for n >= 0
Slice(s, n) == SubSeq(s, 1, Min(n, Len(s)))

Spaces(n) == [i \in 1..n |-> " "]

\* format spec ' <w': left-justify, fill with spaces, minimum width w
LJust(s, w) == IF Len(s) >= w THEN s ELSE s \o Spaces(w - Len(s))

RECURSIVE StrNat(_)
\* str() of a non-negative int
StrNat(n) == IF n < 10 THEN << Digits[n + 1] >>
             ELSE StrNat(n \div 10) \o << Digits[(n % 10) + 1] >>

\* fractional digits of str(float): three decimals, trailing zeros dropped,
\* at least one digit kept ("5.0", "5.12", "5.123")
FracDigits(m) ==
    IF m % 100 = 0 THEN << Digits[(m \div 100) + 1] >>
    ELSE IF m % 10 = 0
         THEN << Digits[(m \div 100) + 1], Digits[((m \div 10) % 10) + 1] >>
         ELSE << Digits[(m \div 100) + 1], Digits[((m \div 10) % 10) + 1],
                 Digits[(m % 10) + 1] >>

\* the text format() renders for the elapsed value before padding
StrElapsed(e) ==
    IF e.t = "int" THEN StrNat(e.v)
    ELSE StrNat(e.whole) \o << "." >> \o FracDigits(e.milli)

\* field {3: <10} of the line format
ElapsedFieldNatural(e) == StrElapsed(e)
ElapsedField(e) == LJust(StrElapsed(e), 10)

\* name field: job['name'][:20] under {0: <20}
NameField(job) == LJust(Slice(job.name, 20), 20)

\* status field: job['status'][:10].upper() under {1: <10}
StatusField(job) == LJust(Upper(Slice(job.status, 10)), 10)

\* finished field: job['finished'][:20] under {2: <20}
FinishedField(job) == LJust(Slice(job.finished, 20), 20)

\* '{0: <20} {1: <10} at {2: <20} in {3: <10} seconds'.format(...)
FormatLine(job) ==
    NameField(job) \o << " " >> \o StatusField(job)
      \o << " ", "a", "t", " " >> \o FinishedField(job)
      \o << " ", "i", "n", " " >> \o ElapsedField(job.elapsed)
      \o << " ", "s", "e", "c", "o", "n", "d", "s" >>

RECURSIVE Join(_)
\* '\n'.join(lines)
Join(ls) == IF Len(ls) = 0 THEN << >>
            ELSE IF Len(ls) = 1 THEN ls[1]
            ELSE ls[1] \o << "\n" >> \o Join(Tail(ls))

\* if len(lines) > 0: return_content += '\n'
TrailingNewlineAlways(ls) == << "\n" >>
TrailingNewline(ls) == IF Len(ls) > 0 THEN << "\n" >> ELSE << >>

\* return_content as lines 75-78 build it
ReturnContent(ls) == Join(ls) \o TrailingNewline(ls)
\* ------------------------------------------------- remote service (data)
WorkflowJobIds == {1, 2}
JobIds == 1..MaxJobs

Statuses == {"pending", "running", "successful", "failed", "error",
             "canceled"}
TerminalStatuses == {"successful", "failed", "error", "canceled"}

\* every third unified job was spawned by workflow job 2, the rest by 1
WorkflowOf(i) == IF i % 3 = 0 THEN 2 ELSE 1

\* later-created jobs finish earlier, so id order differs from finish order
FinishedAt(i) == MaxJobs + 1 - i

NameOf(i) ==
    CASE i % 3 = 1 -> << "S", "e", "t", "u", "p" >>
      [] i % 3 = 2 -> << "D", "e", "p", "l", "o", "y", " ", "a", "p", "p", "l", "i", "c", "a", "t", "i", "o", "n", " ", "s", "e", "r", "v", "e", "r", "s" >>
      [] OTHER -> << "V", "e", "r", "i", "f", "y" >>

ElapsedOf(i) ==
    CASE i % 3 = 1 -> PyFloat(5, 120)
      [] i % 3 = 2 -> PyInt(12)
      [] OTHER -> PyFloat(1234567, 891)

StatusChars(s) ==
    CASE s = "pending" -> << "p", "e", "n", "d", "i", "n", "g" >>
      [] s = "running" -> << "r", "u", "n", "n", "i", "n", "g" >>
      [] s = "successful" -> << "s", "u", "c", "c", "e", "s", "s", "f", "u", "l" >>
      [] s = "failed" -> << "f", "a", "i", "l", "e", "d" >>
      [] s = "error" -> << "e", "r", "r", "o", "r" >>
      [] OTHER -> << "c", "a", "n", "c", "e", "l", "e", "d" >>

\* ISO timestamp of tick t (24 characters, as the service prints them)
TimeStr(t) == << "2", "0", "1", "7", "-", "0", "5", "-", "1", "2", "T", "1", "5", ":", "3", "1", ":", "0" >> \o << Digits[(t % 10) + 1] >> \o << ".", "1", "8", "7", "Z" >>

\* one element of the 'results' array of the unified_jobs list
JobRecord(i, status) ==
    [id |-> i,
     name |-> NameOf(i),
     status |-> StatusChars(status),
     finished |-> IF status \in TerminalStatuses
                  THEN PyStr(TimeStr(FinishedAt(i))) ELSE PyNone,
     elapsed |-> ElapsedOf(i)]
\* ------------------------------------------- unified_jobs list (consumed)
\* query_params of lookup_stdout; status__in is the comma-separated list
\* 'successful,failed,error', kept as the set of its items
QueryParams(p) ==
    [unified_job_node__workflow_job |-> p,
     order_by |-> "finished",
     status__in |-> {"successful", "failed", "error"}]

\* ids of the jobs the service selects for a query
Matching(query, jobs) ==
    {i \in DOMAIN jobs :
        /\ jobs[i] \in query.status__in
        /\ \/ IsNone(query.unified_job_node__workflow_job)
           \/ PyInt(WorkflowOf(i)) = query.unified_job_node__workflow_job}

\* sort key the service applies for order_by
OrderKey(query, i) == IF query.order_by = "finished" THEN FinishedAt(i) ELSE i

RECURSIVE Ordered(_, _)
\* the ids of S in ascending order of the query's sort key
Ordered(query, S) ==
    IF S = {} THEN << >>
    ELSE LET m == CHOOSE i \in S :
                    \A j \in S : OrderKey(query, i) <= OrderKey(query, j)
         IN << m >> \o Ordered(query, S \ {m})

\* uj_res.list(all_pages=True, query=query_params)['results']
UnifiedJobsList(query, jobs) ==
    LET ids == Ordered(query, Matching(query, jobs))
    IN [k \in 1..Len(ids) |-> JobRecord(ids[k], jobs[ids[k]])]

\* --------------------------------------------------------- lookup_stdout
\* start_range, lines 56-60
StartRange(start, N) ==
    IF IsNone(start) THEN 0
    ELSE IF start.v > N THEN N
    ELSE start.v

\* end_range, lines 62-64
EndRange(end, N) ==
    IF IsNone(end) \/ end.v > N THEN N ELSE end.v

\* range(start_range, end_range)
Range(s, e) == [k \in 1..Max(0, e - s) |-> s + k - 1]

\* list indexing: jobs_list[i] raises IndexError outside -N .. N-1
IndexOk(list, i) == -Len(list) <= i /\ i < Len(list)

\* jobs_list[i], negative i counting from the end
Item(list, i) == IF i >= 0 THEN list[i + 1] ELSE list[Len(list) + i + 1]

\* the exception the loop of lines 67-74 raises, "" if it completes
LoopRaises(list, s, e) ==
    LET r == Range(s, e)
        bad == {k \in 1..Len(r) :
                   \/ ~IndexOk(list, r[k])
                   \/ IsNone(Item(list, r[k]).finished)}
    IN IF bad = {} THEN ""
       ELSE LET k == CHOOSE x \in bad : \A y \in bad : x <= y
            IN IF ~IndexOk(list, r[k]) THEN "IndexError" ELSE "TypeError"

\* the jobs the loop visits, in visiting order
Visited(list, s, e) ==
    LET r == Range(s, e) IN [k \in 1..Len(r) |-> Item(list, r[k])]

\* a fetched record with its finished text unwrapped for formatting
Row(job) == [name |-> job.name, status |-> job.status,
             finished |-> job.finished.v, elapsed |-> job.elapsed]

\* lines, as built by lines 66-74
Lines(list, s, e) ==
    LET v == Visited(list, s, e) IN [k \in 1..Len(v) |-> FormatLine(Row(v[k]))]
\* ------------------------------------------------------------------ state
VARIABLES
    pc,              \* where the client is: "idle", a call in progress or ended
    unified_jobs,    \* remote service: status of every unified job
    pk,              \* lookup_stdout: workflow job asked for
    start_line,      \* lookup_stdout: argument
    end_line,        \* lookup_stdout: argument
    jobs_list,       \* lookup_stdout: fetched 'results'
    lines,           \* lookup_stdout: rendered lines
    return_content,  \* lookup_stdout: returned text
    ls_raised,       \* lookup_stdout: exception that left the call, "" if none
    echoed,          \* scorecard: what click.echo wrote, one element per call
    sc_return,       \* scorecard: returned value, PyNone before it returns
    launch_args,     \* launch: its arguments
    requests,        \* launch: bodies posted to the launch endpoint
    post_response,   \* launch: decoded response, PyNone before it arrives
    monitor_calls,   \* launch: calls made to self.monitor
    launch_return,   \* launch: returned value, PyNone before it returns
    launch_raised    \* launch: exception that left the call, "" if none

vars == << pc, unified_jobs, pk, start_line, end_line, jobs_list, lines,
           return_content, ls_raised, echoed, sc_return, launch_args, requests,
           post_response, monitor_calls, launch_return, launch_raised >>

lookupVars == << pk, start_line, end_line, jobs_list, lines, return_content,
                 ls_raised, echoed, sc_return >>
launchVars == << launch_args, requests, post_response, monitor_calls,
                 launch_return, launch_raised >>

LineArgs == {PyNone} \cup {PyInt(n) : n \in (0 - MaxNeg)..(MaxJobs + MaxOver)}

NoCall ==
    /\ pk = PyNone /\ start_line = PyNone /\ end_line = PyNone
    /\ jobs_list = << >> /\ lines = << >> /\ return_content = << >>
    /\ ls_raised = "" /\ echoed = << >> /\ sc_return = PyNone
    /\ launch_args = PyNone /\ requests = << >> /\ post_response = PyNone
    /\ monitor_calls = << >> /\ launch_return = PyNone /\ launch_raised = ""

Init ==
    /\ pc = "idle"
    /\ unified_jobs = [i \in JobIds |-> "pending"]
    /\ NoCall

\* ------------------------------------------------- remote service (steps)
\* a unified job moves on: pending -> running -> one of the terminal states
JobAdvance(i) ==
    /\ pc = "idle"
    /\ \/ /\ unified_jobs[i] = "pending"
          /\ unified_jobs' = [unified_jobs EXCEPT ![i] = "running"]
       \/ /\ unified_jobs[i] = "running"
          /\ \E s \in TerminalStatuses :
                unified_jobs' = [unified_jobs EXCEPT ![i] = s]
    /\ UNCHANGED << pc, lookupVars, launchVars >>

\* ------------------------------------------------------- lookup_stdout
\* the body of lookup_stdout once the list came back
Render(p, start, end, list) ==
    LET N == Len(list)
        s == StartRange(start, N)
        e == EndRange(end, N)
        exc == LoopRaises(list, s, e)
    IN /\ pk' = p /\ start_line' = start /\ end_line' = end
       /\ jobs_list' = list
       /\ ls_raised' = exc
       /\ lines' = IF exc = "" THEN Lines(list, s, e) ELSE << >>
       /\ return_content' = IF exc = "" THEN ReturnContent(Lines(list, s, e))
                            ELSE << >>

\* lookup_stdout(pk, start_line, end_line), the list fetched successfully
LookupStdout(p, start, end) ==
    /\ pc = "idle"
    /\ Render(p, start, end, UnifiedJobsList(QueryParams(p), unified_jobs))
    /\ pc' = "ls_done"
    /\ UNCHANGED << unified_jobs, echoed, sc_return, launchVars >>

\* lookup_stdout when uj_res.list raises: the exception leaves the call
LookupStdoutListFails(p, start, end) ==
    /\ pc = "idle"
    /\ pk' = p /\ start_line' = start /\ end_line' = end
    /\ ls_raised' = "TransportError"
    /\ pc' = "ls_done"
    /\ UNCHANGED << unified_jobs, jobs_list, lines, return_content, echoed,
                    sc_return, launchVars >>

\* scorecard(workflow_job): echo lookup_stdout(workflow_job), changed False
Scorecard(workflow_job) ==
    /\ pc = "idle"
    /\ Render(workflow_job, PyNone, PyNone,
              UnifiedJobsList(QueryParams(workflow_job), unified_jobs))
    /\ echoed' = IF ls_raised' = "" THEN << return_content' \o << "\n" >> >>
                 ELSE << >>
    /\ sc_return' = IF ls_raised' = "" THEN PyDict([changed |-> PyBool(FALSE)])
                    ELSE PyNone
    /\ pc' = "sc_done"
    /\ UNCHANGED << unified_jobs, launchVars >>

\* the caller takes the result; the next call starts from scratch
CallEnds ==
    /\ pc \in {"ls_done", "sc_done", "returned", "raised"}
    /\ pc' = "idle"
    /\ pk' = PyNone /\ start_line' = PyNone /\ end_line' = PyNone
    /\ jobs_list' = << >> /\ lines' = << >> /\ return_content' = << >>
    /\ ls_raised' = "" /\ echoed' = << >> /\ sc_return' = PyNone
    /\ launch_args' = PyNone /\ requests' = << >> /\ post_response' = PyNone
    /\ monitor_calls' = << >> /\ launch_return' = PyNone
    /\ launch_raised' = ""
    /\ UNCHANGED unified_jobs
\* ------------------------------------------------------------------ launch
WorkflowJobTemplates == {PyInt(7), PyInt(8)}
Timeouts == {PyNone, PyInt(0), PyInt(30)}

\* two --extra-vars sources, already split into their key=value pairs
SourceA == "a" :> "1"
SourceB == ("a" :> "2") @@ ("b" :> "3")

\* extra_vars: click passes a tuple of sources; the signature defaults to None
ExtraVarsInputs ==
    {PyNone, PyTuple(<< >>), PyTuple(<< SourceA >>),
     PyTuple(<< SourceA, SourceB >>), PyTuple(<< SourceB, SourceA >>)}

\* **kwargs: other fields, each absent, None or a set value (falsy or not)
FieldNames == {"inventory", "limit"}
FieldValues == {PyNone, PyInt(0), PyBool(FALSE), PyStr(""), PyStr("web")}
KwargsInputs == UNION {[D -> FieldValues] : D \in SUBSET FieldNames}

\* identifiers the service hands out, and the ways a request can fail
NewJobIds == {41, 42}
TransportErrors == {"ConnectionError", "ServerError"}

RECURSIVE MergeSources(_)
\* parser.process_extra_vars: sources merged in order, later keys win
MergeSources(srcs) ==
    IF Len(srcs) = 0 THEN << >>
    ELSE LET n == Len(srcs) IN srcs[n] @@ MergeSources(SubSeq(srcs, 1, n - 1))

ProcessExtraVars(extra_vars) == PyDict(MergeSources(extra_vars.v))

\* lines 104-105: kwargs['extra_vars'] set only for a non-empty tuple
WithExtraVarsAlways(kwargs, extra_vars) ==
    ("extra_vars" :> ProcessExtraVars(extra_vars)) @@ kwargs
WithExtraVars(kwargs, extra_vars) ==
    IF Len(extra_vars.v) > 0
    THEN ("extra_vars" :> ProcessExtraVars(extra_vars)) @@ kwargs
    ELSE kwargs

\* self._pop_none(kwargs): every key whose value is None is removed
PopNone(kwargs) ==
    [k \in {x \in DOMAIN kwargs : ~IsNone(kwargs[x])} |-> kwargs[k]]

\* 'workflow_job_templates/{}/launch/'.format(workflow_job_template)
LaunchPath(wjt) == << "workflow_job_templates", wjt, "launch" >>

\* what the service answers to a launch
LaunchResponse(id, wjt) ==
    ("id" :> PyInt(id)) @@ ("status" :> PyStr("pending"))
      @@ ("workflow_job_template" :> wjt)

\* post_response['changed'] = True
MarkChangedSkipped(resp) == resp
MarkChanged(resp) == ("changed" :> PyBool(TRUE)) @@ resp

\* if monitor:
MonitorIfTimeout(args) == args.monitor \/ ~IsNone(args.timeout)
MonitorRequested(args) == args.monitor

\* the timeout handed to self.monitor
MonitorTimeoutDropped(args) == PyNone
MonitorTimeout(args) == args.timeout

\* what launch returns when it monitored
MonitoredReturn(result, response) == result

\* the exception that leaves launch when client.post raised err
RaisedByPostWrapped(err) == "LaunchError"
RaisedByPost(err) == err

\* results self.monitor can hand back for job id
MonitorResults(id) ==
    {("status" :> PyStr(o)) : o \in {"successful", "failed", "timeout"}}
      \cup {("status" :> PyStr(o)) @@ ("changed" :> PyBool(TRUE)) @@ ("id" :> id) :
               o \in {"successful", "failed"}}

\* launch up to client.post: lines 104-110
LaunchCall(wjt, monitor, timeout, extra_vars, kwargs) ==
    /\ pc = "idle"
    /\ launch_args' = [t |-> "args", workflow_job_template |-> wjt,
                       monitor |-> monitor, timeout |-> timeout,
                       extra_vars |-> extra_vars, kwargs |-> kwargs]
    /\ IF IsNone(extra_vars)
       THEN \* len(None) raises TypeError before anything is sent
            /\ launch_raised' = "TypeError"
            /\ pc' = "raised"
            /\ UNCHANGED requests
       ELSE /\ requests' = << [path |-> LaunchPath(wjt),
                               data |-> PopNone(WithExtraVars(kwargs, extra_vars)),
                               reply |-> PyNone] >>
            /\ pc' = "posting"
            /\ UNCHANGED launch_raised
    /\ UNCHANGED << unified_jobs, lookupVars, post_response, monitor_calls,
                    launch_return >>

\* client.post returns: lines 110-118, up to the call of self.monitor
PostReturns(id) ==
    /\ pc = "posting"
    /\ LET raw == LaunchResponse(id, launch_args.workflow_job_template)
           resp == MarkChanged(raw)
       IN /\ requests' = [requests EXCEPT ![Len(requests)].reply = PyDict(raw)]
          /\ post_response' = PyDict(resp)
          /\ IF MonitorRequested(launch_args)
             THEN /\ monitor_calls' = Append(monitor_calls,
                        [pk |-> resp["id"],
                         timeout |-> MonitorTimeout(launch_args),
                         result |-> PyNone])
                  /\ pc' = "monitoring"
                  /\ UNCHANGED launch_return
             ELSE /\ launch_return' = PyDict(resp)
                  /\ pc' = "returned"
                  /\ UNCHANGED monitor_calls
    /\ UNCHANGED << unified_jobs, lookupVars, launch_args, launch_raised >>

\* client.post raises: nothing in launch catches it
PostFails(err) ==
    /\ pc = "posting"
    /\ requests' = [requests EXCEPT ![Len(requests)].reply =
                        [t |-> "error", v |-> err]]
    /\ launch_raised' = RaisedByPost(err)
    /\ pc' = "raised"
    /\ UNCHANGED << unified_jobs, lookupVars, launch_args, post_response,
                    monitor_calls, launch_return >>

\* self.monitor returns and launch returns its result: line 116
MonitorReturns(res) ==
    /\ pc = "monitoring"
    /\ monitor_calls' = [monitor_calls EXCEPT
                            ![Len(monitor_calls)].result = PyDict(res)]
    /\ launch_return' = PyDict(MonitoredReturn(res, post_response.v))
    /\ pc' = "returned"
    /\ UNCHANGED << unified_jobs, lookupVars, launch_args, requests,
                    post_response, launch_raised >>

\* ----------------------------------------------------------- specification
\* the scorecard builder against a remote service whose jobs move on
Next ==
    \/ \E i \in JobIds : JobAdvance(i)
    \/ \E p \in WorkflowJobIds, s \in LineArgs, e \in LineArgs :
          LookupStdout(PyInt(p), s, e)
    \/ \E p \in WorkflowJobIds, s \in LineArgs, e \in LineArgs :
          LookupStdoutListFails(PyInt(p), s, e)
    \/ \E w \in WorkflowJobIds : Scorecard(PyInt(w))
    \/ CallEnds

Spec == Init /\ [][Next]_vars

\* the launcher; the unified jobs play no part in it
NextLaunch ==
    \/ \E wjt \in WorkflowJobTemplates, m \in BOOLEAN, to \in Timeouts,
          ev \in ExtraVarsInputs, kw \in KwargsInputs :
          LaunchCall(wjt, m, to, ev, kw)
    \/ \E id \in NewJobIds : PostReturns(id)
    \/ \E err \in TransportErrors : PostFails(err)
    \/ /\ pc = "monitoring"
       /\ \E res \in MonitorResults(monitor_calls[Len(monitor_calls)].pk) :
             MonitorReturns(res)
    \/ CallEnds

SpecLaunch == Init /\ [][NextLaunch]_vars

\* ------------------------------------------- rendering of arbitrary records
\* the line format applied to any record a list could hold: names, statuses
\* and timestamps of every length and case, int and float elapsed values
FormatNames == {<< "S", "e", "t", "u", "p" >>,
                << "P", "r", "o", "v", "i", "s", "i", "o", "n", " ", "i", "n", "v", "e", "n", "t", "o", "r", "y", "!" >>,
                << "D", "e", "p", "l", "o", "y", " ", "a", "p", "p", "l", "i", "c", "a", "t", "i", "o", "n", " ", "s", "e", "r", "v", "e", "r", "s" >>}
FormatStatuses == {<< "s", "u", "c", "c", "e", "s", "s", "f", "u", "l" >>, << "F", "a", "i", "l", "e", "d" >>,
                   << "n", "e", "e", "d", "s", "_", "a", "p", "p", "r", "o", "v", "a", "l" >>, << "E", "R", "R", "O", "R" >>}
FormatFinished == {<< "2", "0", "1", "7", "-", "0", "5", "-", "1", "2" >>, TimeStr(3)}
FormatElapsed == {PyInt(3), PyFloat(5, 0), PyFloat(12, 340),
                  PyFloat(1234567, 891)}
FormatRecords ==
    {[id |-> 1, name |-> n, status |-> s, finished |-> PyStr(f), elapsed |-> el] :
        n \in FormatNames, s \in FormatStatuses, f \in FormatFinished,
        el \in FormatElapsed}

InitFormat ==
    /\ pc = "fetched"
    /\ unified_jobs = [i \in JobIds |-> "pending"]
    /\ \E r \in FormatRecords : jobs_list = << r >>
    /\ pk = PyNone /\ start_line = PyNone /\ end_line = PyNone
    /\ lines = << >> /\ return_content = << >>
    /\ ls_raised = "" /\ echoed = << >> /\ sc_return = PyNone
    /\ launch_args = PyNone /\ requests = << >> /\ post_response = PyNone
    /\ monitor_calls = << >> /\ launch_return = PyNone /\ launch_raised = ""

\* lines 54-78 of lookup_stdout over the list at hand
RenderFetched ==
    /\ pc = "fetched"
    /\ Render(PyInt(1), PyNone, PyNone, jobs_list)
    /\ pc' = "ls_done"
    /\ UNCHANGED << unified_jobs, echoed, sc_return, launchVars >>

NextFormat == RenderFetched

SpecFormat == InitFormat /\ [][NextFormat]_vars
\* ================================================================ properties
\* a lookup_stdout call (direct or through scorecard) has ended
LookupEnded == pc \in {"ls_done", "sc_done"}
\* ... and its list fetch succeeded
LookupFetched == LookupEnded /\ ls_raised # "TransportError"
\* ... and it returned its text
LookupReturned == LookupEnded /\ ls_raised = ""

\* effective start and end as the clamping rules state them
ClampedStart(N) ==
    IF start_line.t = "none" THEN 0
    ELSE IF start_line.v > N THEN N ELSE start_line.v
ClampedEnd(N) ==
    IF end_line.t = "none" THEN N
    ELSE IF end_line.v > N THEN N ELSE end_line.v

\* C1: every lookup over a fetched list of N records renders exactly the
\* records at list indices [effective start, effective end), one line per
\* record in list order, so max(0, end - start) lines.
C1_RendersClampedSlice ==
    LookupFetched =>
        LET N == Len(jobs_list)
            s == ClampedStart(N)
            e == ClampedEnd(N)
        IN /\ ls_raised = ""
           /\ Len(lines) = Max(0, e - s)
           /\ \A k \in 1..Len(lines) :
                 /\ s + k \in 1..N
                 /\ lines[k] = FormatLine(Row(jobs_list[s + k]))

\* a line argument that lies outside [0, N]
OutOfRange(arg, N) == arg.t = "int" /\ (arg.v > N \/ arg.v < 0)

\* C2: a lookup whose start_line or end_line lies outside [0, N] raises
\* nothing and returns a text, the empty one when the range holds no record.
C2_OutOfRangeNeverRaises ==
    (LookupFetched /\ (\/ OutOfRange(start_line, Len(jobs_list))
                       \/ OutOfRange(end_line, Len(jobs_list))))
        => /\ ls_raised = ""
           /\ (ClampedStart(Len(jobs_list)) >= ClampedEnd(Len(jobs_list))
                 => return_content = << >>)

\* the fetched records behind the rendered lines, in rendering order
RenderedJobs ==
    Visited(jobs_list, StartRange(start_line, Len(jobs_list)),
            EndRange(end_line, Len(jobs_list)))

\* C9: every rendered line comes from a unified job of the workflow job
\* asked for whose status is successful, failed or error, and the lines are
\* in ascending order of finished time.
C9_OnlyFinishedChildrenInOrder ==
    LookupReturned =>
        LET v == RenderedJobs
        IN /\ Len(v) = Len(lines)
           /\ \A k \in 1..Len(v) :
                 /\ WorkflowOf(v[k].id) = pk.v
                 /\ unified_jobs[v[k].id] \in {"successful", "failed", "error"}
           /\ \A k1, k2 \in 1..Len(v) :
                 k1 < k2 => FinishedAt(v[k1].id) <= FinishedAt(v[k2].id)

RECURSIVE TerminateEach(_)
\* every line followed by one newline
TerminateEach(ls) ==
    IF Len(ls) = 0 THEN << >>
    ELSE ls[1] \o << "\n" >> \o TerminateEach(Tail(ls))

\* C8: the returned text is the lines separated by single newlines with one
\* trailing newline when there is a line, and the empty text when there is
\* none.
C8_NewlineTerminatedLines ==
    LookupReturned =>
        /\ return_content = TerminateEach(lines)
        /\ (Len(lines) = 0 => return_content = << >>)
        /\ (Len(lines) > 0 => return_content[Len(return_content)] = "\n")

C8_Witness == LookupReturned /\ Len(lines) >= 2

\* character p of text left-justified in a field, blank past the text
FieldChar(text, p) == IF p <= Len(text) THEN text[p] ELSE " "

\* the line but for its elapsed part: columns 1-59 and the closing literal
FixedColumns(line, job, w) ==
    /\ Len(line) = 59 + w + 8
    /\ \A p \in 1..20 : line[p] = FieldChar(job.name, p)
    /\ line[21] = " "
    /\ \A p \in 1..10 : line[21 + p] = UpperChar(FieldChar(job.status, p))
    /\ SubSeq(line, 32, 35) = << " ", "a", "t", " " >>
    /\ \A p \in 1..20 : line[35 + p] = FieldChar(job.finished.v, p)
    /\ SubSeq(line, 56, 59) = << " ", "i", "n", " " >>
    /\ SubSeq(line, 59 + w + 1, 59 + w + 8) =
          << " ", "s", "e", "c", "o", "n", "d", "s" >>

\* C7 as stated: the elapsed value stands at its natural width, unpadded.
C7_ElapsedNaturalWidth ==
    LookupReturned =>
        /\ Len(lines) = Len(jobs_list)
        /\ \A k \in 1..Len(lines) :
              LET el == StrElapsed(jobs_list[k].elapsed)
              IN /\ FixedColumns(lines[k], jobs_list[k], Len(el))
                 /\ SubSeq(lines[k], 60, 59 + Len(el)) = el

\* C7 (amended): every line is name[:20] in 20 columns, a space,
\* upper-cased status[:10] in 10 columns, ' at ', finished[:20] in 20
\* columns, ' in ', the elapsed value left-justified in at least 10 columns
\* (padded, never cut), ' seconds'; over-long values are cut, never an error.
C7_ElapsedPaddedToTen ==
    LookupEnded =>
        /\ ls_raised = ""
        /\ Len(lines) = Len(jobs_list)
        /\ \A k \in 1..Len(lines) :
              LET el == StrElapsed(jobs_list[k].elapsed)
                  w == Max(10, Len(el))
              IN /\ FixedColumns(lines[k], jobs_list[k], w)
                 /\ \A p \in 1..w : lines[k][59 + p] = FieldChar(el, p)

C7_Witness ==
    /\ LookupReturned /\ Len(lines) = 1
    /\ Len(jobs_list[1].name) > 20
    /\ Len(jobs_list[1].status) > 10
    /\ Len(jobs_list[1].finished.v) > 20
    /\ Len(StrElapsed(jobs_list[1].elapsed)) < 10

\* ------------------------------------------------------- launch properties
LaunchCalled == launch_args.t = "args"
PostSucceeded == requests # << >> /\ requests[1].reply.t = "dict"
PostFailed == requests # << >> /\ requests[1].reply.t = "error"
\* the response as the service sent it
RawResponse == requests[1].reply.v

\* d is the raw response with changed set to True
IsRawPlusChanged(d) ==
    /\ DOMAIN d = DOMAIN RawResponse \cup {"changed"}
    /\ d["changed"] = PyBool(TRUE)
    /\ \A k \in DOMAIN RawResponse \ {"changed"} : d[k] = RawResponse[k]

\* C3: with monitor false, whatever the timeout, self.monitor is never
\* called and a launch whose post succeeded returns the decoded response
\* with changed set to True, raising nothing.
C3_NoMonitorUnlessRequested ==
    (LaunchCalled /\ ~launch_args.monitor) =>
        /\ monitor_calls = << >>
        /\ pc # "monitoring"
        /\ PostSucceeded =>
              /\ pc = "returned"
              /\ launch_raised = ""
              /\ launch_return.t = "dict"
              /\ IsRawPlusChanged(launch_return.v)

C3_Witness ==
    /\ LaunchCalled /\ ~launch_args.monitor /\ pc = "returned"
    /\ launch_args.timeout.t = "int" /\ launch_args.timeout.v = 30

\* C4: with monitor true, self.monitor is called exactly once, only after
\* the post returned, with the id of the response and the caller's timeout,
\* and launch returns what self.monitor returned.
C4_MonitorOnceAfterPost ==
    (LaunchCalled /\ launch_args.monitor) =>
        /\ ~PostSucceeded => monitor_calls = << >>
        /\ PostSucceeded =>
              /\ pc \in {"monitoring", "returned"}
              /\ Len(monitor_calls) = 1
              /\ monitor_calls[1].pk = RawResponse["id"]
              /\ monitor_calls[1].timeout.t = launch_args.timeout.t
              /\ monitor_calls[1].timeout = launch_args.timeout
              /\ pc = "monitoring" => launch_return.t = "none"
              /\ pc = "returned" =>
                    /\ monitor_calls[1].result.t = "dict"
                    /\ launch_return = monitor_calls[1].result

C4_Witness ==
    /\ LaunchCalled /\ launch_args.monitor /\ pc = "returned"
    /\ launch_args.timeout.t = "int" /\ Len(monitor_calls) = 1

\* d carries changed = True, the new job's id and all the service returned
CarriesChangedAndResponse(d) ==
    /\ "changed" \in DOMAIN d /\ d["changed"] = PyBool(TRUE)
    /\ "id" \in DOMAIN d /\ d["id"] = RawResponse["id"]
    /\ \A k \in DOMAIN RawResponse :
          k \in DOMAIN d /\ d[k].t = RawResponse[k].t /\ d[k] = RawResponse[k]

\* C5 as stated: whatever monitor is, the value launch returns carries
\* changed = True, the new job's id and the fields of the response.
C5_ResultAlwaysChanged ==
    pc = "returned" => CarriesChangedAndResponse(launch_return.v)

\* C5 (amended): with monitor false the value launch returns carries
\* changed = True, the new job's id and the fields of the response; with
\* monitor true it is whatever self.monitor returned, while changed = True
\* is set on the response that launch then lets go.
C5_ChangedOnLaunchResponse ==
    pc = "returned" =>
        /\ post_response.t = "dict"
        /\ CarriesChangedAndResponse(post_response.v)
        /\ IF launch_args.monitor
           THEN launch_return = monitor_calls[1].result
           ELSE CarriesChangedAndResponse(launch_return.v)

C5_Witness ==
    /\ pc = "returned" /\ ~launch_args.monitor
    /\ launch_return.v["id"] = PyInt(42)

\* the merged variables: every key of every source, valued by the last
\* source that has it
IsMergeOf(m, srcs) ==
    /\ DOMAIN m = UNION {DOMAIN srcs[i] : i \in 1..Len(srcs)}
    /\ \A x \in DOMAIN m :
          \E i \in 1..Len(srcs) :
             /\ x \in DOMAIN srcs[i] /\ m[x] = srcs[i][x]
             /\ \A j \in (i + 1)..Len(srcs) : x \notin DOMAIN srcs[j]

\* C6: the posted body holds exactly the other fields whose value is not
\* None (falsy values kept) plus extra_vars, the merged variables, iff the
\* tuple of sources is non-empty; an empty tuple still launches.
C6_PostedBody ==
    (LaunchCalled /\ launch_args.extra_vars.t = "tuple") =>
        /\ Len(requests) = 1
        /\ LET data == requests[1].data
               kw == launch_args.kwargs
               srcs == launch_args.extra_vars.v
           IN /\ DOMAIN data \subseteq FieldNames \cup {"extra_vars"}
              /\ \A k \in DOMAIN data : data[k].t # "none"
              /\ \A k \in FieldNames :
                    /\ k \in DOMAIN data <=> (k \in DOMAIN kw /\ kw[k].t # "none")
                    /\ k \in DOMAIN data => data[k] = kw[k]
              /\ "extra_vars" \in DOMAIN data <=> Len(srcs) > 0
              /\ "extra_vars" \in DOMAIN data =>
                    /\ data["extra_vars"].t = "dict"
                    /\ IsMergeOf(data["extra_vars"].v, srcs)

C6_Witness ==
    /\ LaunchCalled /\ requests # << >>
    /\ DOMAIN launch_args.kwargs = FieldNames
    /\ launch_args.kwargs["inventory"].t = "int"
    /\ launch_args.kwargs["limit"].t = "none"
    /\ launch_args.extra_vars.t = "tuple"
    /\ Len(launch_args.extra_vars.v) = 2
    /\ DOMAIN requests[1].data = {"inventory", "extra_vars"}

\* C10: when the post fails, launch has sent that one request only, never
\* calls self.monitor, returns nothing, and raises the very error of the post.
C10_PostFailurePropagates ==
    PostFailed =>
        /\ pc = "raised"
        /\ Len(requests) = 1
        /\ monitor_calls = << >>
        /\ launch_return.t = "none"
        /\ post_response.t = "none"
        /\ launch_raised = requests[1].reply.v

C10_Witness == PostFailed /\ launch_args.monitor /\ pc = "raised"
====
